---- MODULE Spec2Model ----
(***************************************************************************)
(* Attendance heuristics of the Fireflies webhook worker                   *)
(* (src/src/worker.js: determineAttendance, isActive, scoreActive).        *)
(*                                                                         *)
(* Encodings                                                               *)
(*   - a JS string is a sequence of one-character strings, so that trim()  *)
(*     and toLowerCase() are computed character by character; a missing    *)
(*     (null/undefined) string and "" are both the empty sequence, which   *)
(*     is how (s || "") and the || chain of line 161 treat them;           *)
(*   - an optional number is <<>> (null/undefined) or <<v>>;               *)
(*   - a JS number produced by the scorer is a pair <<n, d>>: the rational *)
(*     n/d in lowest terms when d > 0, +Infinity as <<1, 0>> and NaN as    *)
(*     <<0, 0>>. Arithmetic is exact (no binary rounding).                 *)
(*   - a Map is a sequence of [key, rec] entries in insertion order;       *)
(*     setting an existing key keeps its position and replaces its value.  *)
(***************************************************************************)
EXTENDS Integers, Sequences, FiniteSets, TLC

VARIABLES speakerAnalytics, participants, thresholds,
          analyticsByKey, seen, rows, pc,
          env, inv, frame, sheet

hvars == <<env, inv, frame, sheet>>

rvars == <<speakerAnalytics, participants, thresholds,
           analyticsByKey, seen, rows, pc>>

vars == <<speakerAnalytics, participants, thresholds,
          analyticsByKey, seen, rows, pc, env, inv, frame, sheet>>

(* ------------------------------ bounds --------------------------------- *)

MaxAnalytics == 2
MaxParticipants == 2
MaxThreshold == 2
MaxMetric == 4

(* ------------------------- program constants --------------------------- *)

DEFAULT_WORDS_MIN == 20
DEFAULT_DURATION_MIN_SEC == 60
DEFAULT_QUESTIONS_MIN == 1

DefaultThresholds ==
  [WORDS_MIN |-> DEFAULT_WORDS_MIN,
   DURATION_MIN_SEC |-> DEFAULT_DURATION_MIN_SEC,
   QUESTIONS_MIN |-> DEFAULT_QUESTIONS_MIN]

Unknown == <<"U", "n", "k", "n", "o", "w", "n">>
ReasonPresent == "Present in participant list but no speech/activity detected"
ReasonUnavailable == "Analytics unavailable; cannot confirm activity"
ReasonNoSpeech == "No detectable speech"

(* ------------------------------ strings -------------------------------- *)

Upper == <<"A","B","C","D","E","F","G","H","I","J","K","L","M",
           "N","O","P","Q","R","S","T","U","V","W","X","Y","Z">>
LowerOf == <<"a","b","c","d","e","f","g","h","i","j","k","l","m",
             "n","o","p","q","r","s","t","u","v","w","x","y","z">>

toLowerCaseChar(c) ==
  IF \E i \in 1..Len(Upper) : Upper[i] = c
  THEN LowerOf[CHOOSE i \in 1..Len(Upper) : Upper[i] = c]
  ELSE c

toLowerCase(s) == [i \in 1..Len(s) |-> toLowerCaseChar(s[i])]

IsSpace(c) == c \in {" ", "\t", "\n", "\r"}

RECURSIVE trimStart(_)
trimStart(s) ==
  IF s # <<>> /\ IsSpace(Head(s)) THEN trimStart(Tail(s)) ELSE s

RECURSIVE trimEnd(_)
trimEnd(s) ==
  IF s # <<>> /\ IsSpace(s[Len(s)])
  THEN trimEnd(SubSeq(s, 1, Len(s) - 1))
  ELSE s

trim(s) == trimEnd(trimStart(s))

norm(s) == toLowerCase(trim(s))

(* ------------------------------ numbers -------------------------------- *)

NaN == <<0, 0>>
Infinity == <<1, 0>>

RECURSIVE GCD(_, _)
GCD(a, b) == IF b = 0 THEN a ELSE GCD(b, a % b)

Rat(n, d) == LET g == GCD(n, d) IN <<n \div g, d \div g>>

IsNaN(x) == x = NaN

JsDiv(a, b) ==
  IF b = 0 THEN (IF a = 0 THEN NaN ELSE Infinity) ELSE Rat(a, b)

JsLt(x, y) == ~IsNaN(x) /\ ~IsNaN(y) /\ x[1] * y[2] < y[1] * x[2]

MathMin(x, y) ==
  IF IsNaN(x) \/ IsNaN(y) THEN NaN ELSE IF JsLt(y, x) THEN y ELSE x

MathMax(x, y) ==
  IF IsNaN(x) \/ IsNaN(y) THEN NaN ELSE IF JsLt(x, y) THEN y ELSE x

JsMul(x, y) ==
  IF IsNaN(x) \/ IsNaN(y) THEN NaN
  ELSE IF x[2] = 0 \/ y[2] = 0
       THEN (IF x[1] = 0 \/ y[1] = 0 THEN NaN ELSE Infinity)
       ELSE Rat(x[1] * y[1], x[2] * y[2])

JsAdd(x, y) ==
  IF IsNaN(x) \/ IsNaN(y) THEN NaN
  ELSE IF x[2] = 0 \/ y[2] = 0 THEN Infinity
       ELSE Rat(x[1] * y[2] + y[1] * x[2], x[2] * y[2])

Num(n) == <<n, 1>>

(* ------------------------------ scorer --------------------------------- *)

OrZero(x) == IF x = <<>> THEN 0 ELSE x[1]

(* isActive with strict comparisons *)
isActive_strict(rec, th) ==
  LET w == OrZero(rec.word_count)
      d == OrZero(rec.duration_sec)
      q == OrZero(rec.questions)
  IN w > th.WORDS_MIN \/ d > th.DURATION_MIN_SEC \/ q > th.QUESTIONS_MIN

isActive(rec, th) ==
  LET w == OrZero(rec.word_count)
      d == OrZero(rec.duration_sec)
      q == OrZero(rec.questions)
  IN w >= th.WORDS_MIN \/ d >= th.DURATION_MIN_SEC \/ q >= th.QUESTIONS_MIN

(* a contribution that saturates at the threshold, not at twice it *)
Contribution_noDouble(x, min, weight) ==
  JsMul(MathMin(JsDiv(x, min), Num(1)), weight)

Contribution(x, min, weight) ==
  JsMul(MathMin(JsDiv(x, min * 2), Num(1)), weight)

scoreValue(rec, th) ==
  LET w == OrZero(rec.word_count)
      d == OrZero(rec.duration_sec)
      q == OrZero(rec.questions)
      s0 == Num(0)
      s1 == JsAdd(s0, Contribution(w, th.WORDS_MIN, Rat(4, 10)))
      s2 == JsAdd(s1, Contribution(d, th.DURATION_MIN_SEC, Rat(4, 10)))
      s3 == JsAdd(s2, Contribution(q, th.QUESTIONS_MIN, Rat(2, 10)))
  IN MathMax(Rat(1, 10), MathMin(Num(1), s3))

RECURSIVE join(_, _)
join(parts, sep) ==
  IF parts = <<>> THEN ""
  ELSE IF Len(parts) = 1 THEN parts[1]
  ELSE parts[1] \o sep \o join(Tail(parts), sep)

(* the reason joined with ", " *)
scoreReason_comma(rec) ==
  LET w == OrZero(rec.word_count)
      d == OrZero(rec.duration_sec)
      q == OrZero(rec.questions)
      r1 == IF w # 0 THEN <<ToString(w) \o " words">> ELSE <<>>
      r2 == IF d # 0 THEN Append(r1, ToString(d) \o "s spoken") ELSE r1
      r3 == IF q # 0 THEN Append(r2, ToString(q) \o " questions") ELSE r2
  IN IF Len(r3) # 0 THEN join(r3, ", ") ELSE ReasonNoSpeech

scoreReason(rec) ==
  LET w == OrZero(rec.word_count)
      d == OrZero(rec.duration_sec)
      q == OrZero(rec.questions)
      r1 == IF w # 0 THEN <<ToString(w) \o " words">> ELSE <<>>
      r2 == IF d # 0 THEN Append(r1, ToString(d) \o "s spoken") ELSE r1
      r3 == IF q # 0 THEN Append(r2, ToString(q) \o " questions") ELSE r2
  IN IF Len(r3) # 0 THEN join(r3, "; ") ELSE ReasonNoSpeech

scoreActive(rec, th) ==
  [score |-> scoreValue(rec, th), reason |-> scoreReason(rec)]

(* ------------------------------ resolver ------------------------------- *)

MapHas(m, k) == \E i \in 1..Len(m) : m[i].key = k

MapSet(m, k, v) ==
  IF MapHas(m, k)
  THEN [i \in 1..Len(m) |-> IF m[i].key = k THEN [key |-> k, rec |-> v] ELSE m[i]]
  ELSE Append(m, [key |-> k, rec |-> v])

Display(s) ==
  IF s.name # <<>> THEN s.name
  ELSE IF s.user_email # <<>> THEN s.user_email
  ELSE Unknown

(* duration_pct (line 165) is stored and never read: it is left out. *)
MakeRecord(s) ==
  [display |-> Display(s),
   word_count |-> <<OrZero(s.word_count)>>,
   duration_sec |-> s.duration_sec,
   questions |-> <<OrZero(s.questions)>>]

IndexOne(m, s) ==
  LET keyName == norm(s.name)
      keyEmail == norm(s.user_email)
      record == MakeRecord(s)
      m1 == IF keyName # <<>> THEN MapSet(m, <<"n:", keyName>>, record) ELSE m
  IN IF keyEmail # <<>> THEN MapSet(m1, <<"e:", keyEmail>>, record) ELSE m1

RECURSIVE IndexAll(_, _)
IndexAll(m, list) ==
  IF list = <<>> THEN m ELSE IndexAll(IndexOne(m, Head(list)), Tail(list))

SpeakerRow(rec, th) ==
  LET attended == isActive(rec, th)
      sr == scoreActive(rec, th)
  IN [person |-> rec.display, attended |-> attended,
      confidence |-> sr.score, reason |-> sr.reason]

(* the speaker loop without its seen check *)
SpeakerStep_noSeen(st, rec, th) ==
  [rows |-> Append(st.rows, SpeakerRow(rec, th)),
   seen |-> st.seen \cup {rec.display}]

SpeakerStep(st, rec, th) ==
  IF rec.display \in st.seen THEN st
  ELSE [rows |-> Append(st.rows, SpeakerRow(rec, th)),
        seen |-> st.seen \cup {rec.display}]

RECURSIVE SpeakerLoop(_, _, _)
SpeakerLoop(st, entries, th) ==
  IF entries = <<>> THEN st
  ELSE SpeakerLoop(SpeakerStep(st, Head(entries).rec, th), Tail(entries), th)

(* the softer rule "present == attended" *)
ParticipantRow_present(email) ==
  [person |-> email, attended |-> TRUE,
   confidence |-> Rat(5, 10), reason |-> ReasonPresent]

ParticipantRow(email) ==
  [person |-> email, attended |-> FALSE,
   confidence |-> Rat(5, 10), reason |-> ReasonPresent]

(* the participant lookup on the raw identifier *)
ParticipantStep_rawKey(rs, m, email) ==
  IF MapHas(m, <<"e:", email>>) THEN rs
  ELSE Append(rs, ParticipantRow(email))

ParticipantStep(rs, m, email) ==
  IF MapHas(m, <<"e:", norm(email)>>) THEN rs
  ELSE Append(rs, ParticipantRow(email))

RECURSIVE ParticipantLoop(_, _, _)
ParticipantLoop(rs, m, list) ==
  IF list = <<>> THEN rs
  ELSE ParticipantLoop(ParticipantStep(rs, m, Head(list)), m, Tail(list))

FallbackRow(email) ==
  [person |-> email, attended |-> FALSE,
   confidence |-> Rat(4, 10), reason |-> ReasonUnavailable]

(* the fallback guarded by "no speaker row" and appending to the output *)
FallbackRows_noSpeakers(rs, list) ==
  IF (\A i \in 1..Len(rs) : rs[i].reason = ReasonPresent) /\ Len(list) # 0
  THEN rs \o [i \in 1..Len(list) |-> FallbackRow(list[i])]
  ELSE rs

FallbackRows(rs, list) ==
  IF Len(rs) = 0 /\ Len(list) # 0
  THEN [i \in 1..Len(list) |-> FallbackRow(list[i])]
  ELSE rs

(* ------------------------------ inputs --------------------------------- *)

Alice == <<"A", "l", "i", "c", "e">>
AliceLower == <<"a", "l", "i", "c", "e">>
Blank == <<" ">>
AliceMail == <<"a","l","i","c","e","@","c","o",".","c","o","m">>
BobMail == <<"b","o","b","@","c","o",".","c","o","m">>
BobMailRaw == <<" ","B","o","b","@","C","O",".","c","o","m">>
BobMailCaps == <<"B","o","b","@","c","o",".","c","o","m">>

Names == {<<>>, Alice, AliceLower, Blank}
Emails == {<<>>, BobMailCaps}
ParticipantIds == {AliceMail, BobMail, BobMailRaw}

Loud == [word_count |-> <<50>>, duration_sec |-> <<200>>, questions |-> <<3>>]
Quiet == [word_count |-> <<>>, duration_sec |-> <<>>, questions |-> <<>>]
Profiles == {Loud, Quiet}

Speaker(n, e, p) ==
  [name |-> n, user_email |-> e, word_count |-> p.word_count,
   duration_sec |-> p.duration_sec, questions |-> p.questions]

Speakers == {Speaker(n, e, p) : n \in Names, e \in Emails, p \in Profiles}

SeqsUpTo(S, n) == UNION {[1..k -> S] : k \in 0..n}

OptMetric == {<<>>} \cup {<<v>> : v \in 0..MaxMetric}

ThresholdConfigs ==
  [WORDS_MIN : 0..MaxThreshold, DURATION_MIN_SEC : 0..MaxThreshold,
   QUESTIONS_MIN : 0..MaxThreshold]

(* ------------------------------ handler -------------------------------- *)
(* The webhook handler fetch(request, env) of lines 2-96. An invocation    *)
(* runs without interruption between its awaits (request.json(),           *)
(* fetchFireflies, appendToSheet). inv[i] is what the outside sees of      *)
(* invocation i: its position, the request, body and provider result it    *)
(* was given, the calls it made, the values it passed to appendToSheet and *)
(* its response. frame[k] holds the let/const bindings of one activation.  *)
(* whenISO (a wall-clock reading) and the date, duration and URL columns,  *)
(* copied like the title, are left out of a row of values.                 *)

Invocations == {1, 2}

GoodSecret == "s3cret"
BadSecret == "guess"

BadJson == [bad |-> TRUE]

Payload(type, id1, id2, data) ==
  [bad |-> FALSE, type |-> type, transcript_id |-> id1, transcriptId |-> id2,
   data |-> data]

Data(id1, id2) == <<[transcript_id |-> id1, transcriptId |-> id2]>>

Bodies ==
  {BadJson,
   Payload("ping", "", "", <<>>),
   Payload("", "", "", <<>>),
   Payload("", "", "", Data("", "")),
   Payload("", "m1", "", <<>>),
   Payload("", "", "m2", <<>>),
   Payload("", "", "", Data("m1", "")),
   Payload("", "", "", Data("", "m2")),
   Payload("", "m1", "m2", Data("m2", "m2"))}

Requests ==
  [method : {"GET", "POST"}, secret : {<<>>, <<GoodSecret>>, <<BadSecret>>}]

Transcript(title, ps, sa) ==
  [title |-> title, participants |-> ps, analytics |-> sa]

(* participants and analytics are <<>> when null, else <<list>>. *)
Transcripts ==
  {Transcript("Standup", <<<<AliceMail, BobMail>>>>, <<<<Speaker(Alice, <<>>, Loud)>>>>),
   Transcript("Retro", <<<<BobMail>>>>, <<>>),
   Transcript("", <<>>, <<<<Speaker(<<>>, <<>>, Quiet)>>>>)}

FetchThrows == [threw |-> TRUE]
FetchResults ==
  {FetchThrows, [threw |-> FALSE, transcript |-> <<>>]}
    \cup {[threw |-> FALSE, transcript |-> <<tr>>] : tr \in Transcripts}

Response(status, body) == <<[status |-> status, body |-> body]>>

NoFrame ==
  [payload |-> <<>>, transcriptId |-> "", byPerson |-> <<>>, values |-> <<>>]

NoInvocation ==
  [pc |-> "idle", request |-> <<>>, body |-> <<>>, ff |-> <<>>,
   calls |-> <<>>, appended |-> <<>>, response |-> <<>>]

NoHandler ==
  /\ env = [WEBHOOK_SECRET |-> <<>>]
  /\ inv = [i \in Invocations |-> NoInvocation]
  /\ frame = [i \in Invocations |-> NoFrame]
  /\ sheet = <<>>

(* the loose comparison !=, under which null equals undefined *)
SecretMatches_loose(header, configured) == header = configured

(* line 7: headers.get gives null for a missing header, env gives          *)
(* undefined for a missing variable, and null !== undefined.               *)
SecretMatches(header, configured) ==
  header # <<>> /\ configured # <<>> /\ header = configured

Or(a, b) == IF a # "" THEN a ELSE b

extractTranscriptId(payload) ==
  Or(payload.transcript_id,
     Or(payload.transcriptId,
        Or(IF payload.data = <<>> THEN "" ELSE payload.data[1].transcript_id,
           IF payload.data = <<>> THEN "" ELSE payload.data[1].transcriptId)))

(* a handler that never takes the branch of line 32 *)
MissingId_never(transcriptId) == FALSE

MissingId(transcriptId) == transcriptId = ""

determineAttendance(sa, ps, th) ==
  LET m == IndexAll(<<>>, sa)
      st == SpeakerLoop([rows |-> <<>>, seen |-> {}], m, th)
      withParticipants == ParticipantLoop(st.rows, m, ps)
  IN FallbackRows(withParticipants, ps)

TwoDigits(n) == IF n < 10 THEN "0" \o ToString(n) ELSE ToString(n)

(* Number.prototype.toFixed(2), rounding half up on the exact value. *)
toFixed2(x) ==
  IF IsNaN(x) THEN "NaN"
  ELSE IF x[2] = 0 THEN "Infinity"
  ELSE LET cents == (2 * 100 * x[1] + x[2]) \div (2 * x[2])
       IN ToString(cents \div 100) \o "." \o TwoDigits(cents % 100)

formatValues(byPerson, meetingID, title) ==
  [k \in 1..Len(byPerson) |->
     <<meetingID, byPerson[k].person,
       IF byPerson[k].attended THEN "TRUE" ELSE "FALSE",
       toFixed2(byPerson[k].confidence), byPerson[k].reason, title>>]

(* one activation shared by every invocation, as module-level bindings *)
Closure_shared(i) == 1

(* line 2: each call of fetch has its own bindings. *)
Closure(i) == i

Called(v, name) == [v EXCEPT !.calls = Append(@, name)]

Respond(v, status, body) ==
  [v EXCEPT !.pc = "responded", !.response = Response(status, body)]

(* lines 3-14: up to the first await. *)
HandleRequest(i) ==
  /\ inv[i].pc = "idle"
  /\ \E request \in Requests :
       LET v == [inv[i] EXCEPT !.request = <<request>>]
       IN inv' = [inv EXCEPT ![i] =
            IF request.method # "POST" THEN Respond(v, 200, "OK")
            ELSE IF ~SecretMatches(request.secret, env.WEBHOOK_SECRET)
                 THEN Respond(v, 401, "Unauthorized")
                 ELSE [Called(v, "request.json") EXCEPT !.pc = "json"]]
  /\ UNCHANGED <<env, frame, sheet, rvars>>

(* lines 14-37: request.json() settles; up to the call of fetchFireflies. *)
ResumeAfterJson(i) ==
  /\ inv[i].pc = "json"
  /\ \E body \in Bodies :
       LET v == [inv[i] EXCEPT !.body = <<body>>]
           c == Closure(i)
           transcriptId == extractTranscriptId(body)
       IN IF body.bad
          THEN /\ inv' = [inv EXCEPT ![i] = Respond(v, 400, "Bad JSON")]
               /\ frame' = frame
          ELSE IF body.type = "ping"
          THEN /\ inv' = [inv EXCEPT ![i] = Respond(v, 200, "{ok:true}")]
               /\ frame' = [frame EXCEPT ![c].payload = <<body>>]
          ELSE IF MissingId(transcriptId)
          THEN /\ inv' = [inv EXCEPT ![i] =
                            Respond(v, 200, "No transcript_id in webhook")]
               /\ frame' = [frame EXCEPT ![c].payload = <<body>>,
                                         ![c].transcriptId = transcriptId]
          ELSE /\ inv' = [inv EXCEPT ![i] =
                            [Called(v, "fetchFireflies") EXCEPT !.pc = "fetch"]]
               /\ frame' = [frame EXCEPT ![c].payload = <<body>>,
                                         ![c].transcriptId = transcriptId]
  /\ UNCHANGED <<env, sheet, rvars>>

(* lines 37-92: fetchFireflies settles; up to the call of appendToSheet. *)
ResumeAfterFetch(i) ==
  /\ inv[i].pc = "fetch"
  /\ \E ff \in FetchResults :
       LET v == [inv[i] EXCEPT !.ff = <<ff>>]
           c == Closure(i)
       IN IF ff.threw
          THEN /\ inv' = [inv EXCEPT ![i] = [v EXCEPT !.pc = "threw"]]
               /\ frame' = frame
          ELSE IF ff.transcript = <<>>
          THEN /\ inv' = [inv EXCEPT ![i] = Respond(v, 200, "No transcript yet")]
               /\ frame' = frame
          ELSE LET tr == ff.transcript[1]
                   ps == IF tr.participants = <<>> THEN <<>> ELSE tr.participants[1]
                   sa == IF tr.analytics = <<>> THEN <<>> ELSE tr.analytics[1]
                   byPerson == determineAttendance(sa, ps, thresholds)
                   meetingID == frame[c].transcriptId
                   values == formatValues(byPerson, meetingID, tr.title)
                   w == Called(v, "determineAttendance")
               IN /\ frame' = [frame EXCEPT ![c].byPerson = byPerson,
                                            ![c].values = values]
                  /\ inv' = [inv EXCEPT ![i] =
                       IF Len(values) # 0
                       THEN [Called(w, "appendToSheet") EXCEPT
                               !.pc = "append", !.appended = <<values>>]
                       ELSE Respond(w, 200, "OK")]
  /\ UNCHANGED <<env, sheet, rvars>>

(* lines 93-95 and 254-264: the append settles. *)
ResumeAfterAppend(i) ==
  /\ inv[i].pc = "append"
  /\ \E ok \in BOOLEAN :
       IF ok
       THEN /\ sheet' = Append(sheet, inv[i].appended[1])
            /\ inv' = [inv EXCEPT ![i] = Respond(inv[i], 200, "OK")]
       ELSE /\ sheet' = sheet
            /\ inv' = [inv EXCEPT ![i].pc = "threw"]
  /\ UNCHANGED <<env, frame, rvars>>

InitHandler ==
  /\ speakerAnalytics = <<>>
  /\ participants = <<>>
  /\ thresholds = DefaultThresholds
  /\ analyticsByKey = <<>>
  /\ seen = {}
  /\ rows = <<>>
  /\ pc = "handler"
  /\ env \in [WEBHOOK_SECRET : {<<>>, <<GoodSecret>>}]
  /\ inv = [i \in Invocations |-> NoInvocation]
  /\ frame = [i \in Invocations |-> NoFrame]
  /\ sheet = <<>>

NextHandler ==
  \E i \in Invocations :
    \/ HandleRequest(i)
    \/ ResumeAfterJson(i)
    \/ ResumeAfterFetch(i)
    \/ ResumeAfterAppend(i)

SpecHandler == InitHandler /\ [][NextHandler]_vars

(* ------------------------------ behaviour ------------------------------ *)

Start ==
  /\ analyticsByKey = <<>>
  /\ seen = {}
  /\ rows = <<>>
  /\ pc = "index"
  /\ NoHandler

Init ==
  /\ speakerAnalytics \in SeqsUpTo(Speakers, MaxAnalytics)
  /\ participants \in SeqsUpTo(ParticipantIds, MaxParticipants)
  /\ thresholds = DefaultThresholds
  /\ Start

InitScorer ==
  /\ \E w \in OptMetric, d \in OptMetric, q \in OptMetric :
       speakerAnalytics =
         <<Speaker(Alice, <<>>, [word_count |-> w, duration_sec |-> d, questions |-> q])>>
  /\ participants = <<>>
  /\ thresholds \in ThresholdConfigs
  /\ Start

BuildIndex ==
  /\ pc = "index"
  /\ analyticsByKey' = IndexAll(analyticsByKey, speakerAnalytics)
  /\ pc' = "speakers"
  /\ UNCHANGED <<speakerAnalytics, participants, thresholds, seen, rows, hvars>>

EmitSpeakers ==
  /\ pc = "speakers"
  /\ LET st == SpeakerLoop([rows |-> rows, seen |-> seen], analyticsByKey, thresholds)
     IN /\ rows' = st.rows
        /\ seen' = st.seen
  /\ pc' = "participants"
  /\ UNCHANGED <<speakerAnalytics, participants, thresholds, analyticsByKey, hvars>>

EmitParticipants ==
  /\ pc = "participants"
  /\ rows' = ParticipantLoop(rows, analyticsByKey, participants)
  /\ pc' = "fallback"
  /\ UNCHANGED <<speakerAnalytics, participants, thresholds, analyticsByKey, seen, hvars>>

Fallback ==
  /\ pc = "fallback"
  /\ rows' = FallbackRows(rows, participants)
  /\ pc' = "done"
  /\ UNCHANGED <<speakerAnalytics, participants, thresholds, analyticsByKey, seen, hvars>>

Next == BuildIndex \/ EmitSpeakers \/ EmitParticipants \/ Fallback

Spec == Init /\ [][Next]_vars

SpecScorer == InitScorer /\ [][Next]_vars

(* ------------------------------ row kinds ------------------------------ *)

IsFallbackRow(r) == r.reason = ReasonUnavailable /\ r.confidence = Rat(4, 10)
IsParticipantRow(r) == r.reason = ReasonPresent /\ r.confidence = Rat(5, 10)
IsSpeakerRow(r) == r.reason \notin {ReasonUnavailable, ReasonPresent}

SpeakerRowsOf(rs) == SelectSeq(rs, IsSpeakerRow)

Resolved == pc = "done"

Measured(x) == IF x = <<>> THEN 0 ELSE x[1]

JsLe(x, y) == ~IsNaN(x) /\ ~IsNaN(y) /\ x[1] * y[2] <= y[1] * x[2]

(* ------------------------------ claims --------------------------------- *)

(* C1: the row's attended flag is true iff wordCount >= minWords or        *)
(* durationSec >= minDurationSec or questionCount >= minQuestions, a       *)
(* missing metric counting as 0.                                           *)
C1_AttendedIffAnyThreshold ==
  Resolved =>
    /\ Len(rows) = 1
    /\ LET s == speakerAnalytics[1]
       IN rows[1].attended <=>
            \/ Measured(s.word_count) >= thresholds.WORDS_MIN
            \/ Measured(s.duration_sec) >= thresholds.DURATION_MIN_SEC
            \/ Measured(s.questions) >= thresholds.QUESTIONS_MIN

C1_OneBelowEachThreshold ==
  /\ Resolved
  /\ Len(rows) = 1
  /\ speakerAnalytics[1].word_count = <<thresholds.WORDS_MIN - 1>>
  /\ speakerAnalytics[1].duration_sec = <<thresholds.DURATION_MIN_SEC - 1>>
  /\ speakerAnalytics[1].questions = <<thresholds.QUESTIONS_MIN - 1>>
  /\ rows[1].attended = FALSE

(* C2: the confidence of every scored row lies in [0.1, 1.0] for all       *)
(* non-negative metrics and non-negative thresholds, 0 included.           *)
C2_ConfidenceInRange ==
  Resolved =>
    \A i \in 1..Len(rows) :
      /\ JsLe(Rat(1, 10), rows[i].confidence)
      /\ JsLe(rows[i].confidence, Num(1))

(* C3: the output is empty iff both the analytics list and the participant *)
(* list are empty.                                                         *)
C3_EmptyIffBothEmpty ==
  Resolved => (rows = <<>> <=> (speakerAnalytics = <<>> /\ participants = <<>>))

(* C4: with no analytics and some participants the output is one fallback  *)
(* row per participant: attended false, confidence 0.4, "Analytics         *)
(* unavailable; cannot confirm activity".                                  *)
C4_FallbackPerParticipant ==
  (Resolved /\ speakerAnalytics = <<>> /\ participants # <<>>) =>
    /\ Len(rows) = Len(participants)
    /\ \A i \in 1..Len(rows) :
         rows[i] = [person |-> participants[i], attended |-> FALSE,
                    confidence |-> Rat(4, 10), reason |-> ReasonUnavailable]

(* C5: a fallback row appears only when the analytics list is empty and    *)
(* the participant list is not, and never beside a row of another kind.    *)
C5_FallbackOnlyWithoutAnalytics ==
  /\ (speakerAnalytics # <<>> \/ participants = <<>>) =>
       \A i \in 1..Len(rows) : ~IsFallbackRow(rows[i])
  /\ \A i, j \in 1..Len(rows) : IsFallbackRow(rows[i]) => IsFallbackRow(rows[j])

C5_NoSpeakerRowYetNoFallback ==
  /\ Resolved
  /\ speakerAnalytics # <<>>
  /\ participants # <<>>
  /\ SpeakerRowsOf(rows) = <<>>
  /\ rows # <<>>
  /\ \A i \in 1..Len(rows) : IsParticipantRow(rows[i])

(* The branch of lines 203-212 never runs: the output holds no fallback    *)
(* row in any state.                                                       *)
FallbackNeverTaken ==
  /\ \A i \in 1..Len(rows) : ~IsFallbackRow(rows[i])
  /\ pc = "fallback" => ~(Len(rows) = 0 /\ Len(participants) # 0)

(* C6: Alice (50 words, 200 s, 3 questions, no email) with participants    *)
(* alice@co.com and bob@co.com under the default thresholds.               *)
C6_Scenario ==
  /\ Resolved
  /\ speakerAnalytics = <<Speaker(Alice, <<>>, Loud)>>
  /\ participants = <<AliceMail, BobMail>>
  /\ thresholds = DefaultThresholds

C6_AliceRow ==
  [person |-> Alice, attended |-> TRUE, confidence |-> Num(1),
   reason |-> "50 words; 200s spoken; 3 questions"]

C6_SilentRow(id) ==
  [person |-> id, attended |-> FALSE, confidence |-> Rat(5, 10),
   reason |-> "Present in participant list but no speech/activity detected"]

(* C6 as stated: exactly two rows, Alice then bob@co.com.                  *)
C6_TwoRows ==
  C6_Scenario => rows = <<C6_AliceRow, C6_SilentRow(BobMail)>>

(* C6 amended: exactly three rows, Alice, then alice@co.com and bob@co.com *)
(* as silent participants, in that order.                                  *)
C6_ThreeRows ==
  C6_Scenario =>
    rows = <<C6_AliceRow, C6_SilentRow(AliceMail), C6_SilentRow(BobMail)>>

C6_ScenarioResolved == C6_Scenario /\ Len(rows) = 3

(* C7: two analytics entries with neither name nor email give exactly one  *)
(* analytics-derived row, for person "Unknown".                            *)
C7_OneUnknownRow ==
  (/\ Resolved
   /\ Len(speakerAnalytics) = 2
   /\ \A i \in 1..2 : speakerAnalytics[i].name = <<>>
                      /\ speakerAnalytics[i].user_email = <<>>)
  => /\ Len(SpeakerRowsOf(rows)) = 1
     /\ SpeakerRowsOf(rows)[1].person = Unknown

(* C8: no two rows of one output carry the same person.                    *)
C8_OneRowPerPerson ==
  Resolved =>
    \A i, j \in 1..Len(rows) : i # j => rows[i].person # rows[j].person

(* C9: no two rows of the analytics pass share a display name.             *)
C9_SpeakerRowsDistinct ==
  pc \in {"participants", "fallback", "done"} =>
    LET sr == SpeakerRowsOf(rows)
    IN \A i, j \in 1..Len(sr) : i # j => sr[i].person # sr[j].person

C9_SharedDisplayCollapsed ==
  /\ pc = "participants"
  /\ \E i, j \in 1..Len(analyticsByKey) :
       /\ i < j
       /\ analyticsByKey[i].rec.display = analyticsByKey[j].rec.display
       /\ analyticsByKey[i].rec # analyticsByKey[j].rec
       /\ Cardinality({k \in 1..Len(rows) :
                         rows[k].person = analyticsByKey[i].rec.display}) = 1

(* C10: analytics-derived rows come in the order in which their entries    *)
(* first appear in the analytics list.                                     *)
FirstWithDisplay(i) ==
  \A k \in 1..(i - 1) : Display(speakerAnalytics[k]) # Display(speakerAnalytics[i])

RowIndex(rs, person) == CHOOSE k \in 1..Len(rs) : rs[k].person = person

HasRow(rs, person) == \E k \in 1..Len(rs) : rs[k].person = person

C10_FirstSeenOrder ==
  Resolved =>
    LET sr == SpeakerRowsOf(rows)
    IN \A i, j \in 1..Len(speakerAnalytics) :
         (/\ i < j
          /\ FirstWithDisplay(i)
          /\ FirstWithDisplay(j)
          /\ HasRow(sr, Display(speakerAnalytics[i]))
          /\ HasRow(sr, Display(speakerAnalytics[j])))
         => RowIndex(sr, Display(speakerAnalytics[i]))
              < RowIndex(sr, Display(speakerAnalytics[j]))

(* C13: the reason lists exactly the non-zero signals, words then duration *)
(* then questions, as "<w> words", "<d>s spoken", "<q> questions" joined   *)
(* with "; "; it is "No detectable speech" iff all three are zero or       *)
(* missing, and it is never empty.                                         *)
C13_Words(s) == ToString(Measured(s.word_count)) \o " words"
C13_Spoken(s) == ToString(Measured(s.duration_sec)) \o "s spoken"
C13_Questions(s) == ToString(Measured(s.questions)) \o " questions"

C13_Expected(s) ==
  LET w == Measured(s.word_count) # 0
      d == Measured(s.duration_sec) # 0
      q == Measured(s.questions) # 0
  IN CASE w /\ d /\ q -> C13_Words(s) \o "; " \o C13_Spoken(s) \o "; " \o C13_Questions(s)
       [] w /\ d /\ ~q -> C13_Words(s) \o "; " \o C13_Spoken(s)
       [] w /\ ~d /\ q -> C13_Words(s) \o "; " \o C13_Questions(s)
       [] ~w /\ d /\ q -> C13_Spoken(s) \o "; " \o C13_Questions(s)
       [] w /\ ~d /\ ~q -> C13_Words(s)
       [] ~w /\ d /\ ~q -> C13_Spoken(s)
       [] ~w /\ ~d /\ q -> C13_Questions(s)
       [] ~w /\ ~d /\ ~q -> "No detectable speech"

C13_ReasonListsNonZeroSignals ==
  Resolved =>
    /\ Len(rows) = 1
    /\ LET s == speakerAnalytics[1]
       IN /\ rows[1].reason = C13_Expected(s)
          /\ rows[1].reason # ""
          /\ rows[1].reason = "No detectable speech" <=>
               /\ Measured(s.word_count) = 0
               /\ Measured(s.duration_sec) = 0
               /\ Measured(s.questions) = 0

C13_TwoSignalsListed ==
  /\ Resolved
  /\ Len(rows) = 1
  /\ speakerAnalytics[1].word_count = <<3>>
  /\ speakerAnalytics[1].duration_sec \in {<<>>, <<0>>}
  /\ speakerAnalytics[1].questions = <<2>>
  /\ rows[1].reason = "3 words; 2 questions"

(* C14: when several analytics entries share a display name, the one row   *)
(* for that name is scored from the first such entry.                      *)
FirstIndexWithDisplay(d) ==
  CHOOSE i \in 1..Len(speakerAnalytics) :
    /\ Display(speakerAnalytics[i]) = d
    /\ \A k \in 1..(i - 1) : Display(speakerAnalytics[k]) # d

C14_ScoredFromFirst ==
  Resolved =>
    LET sr == SpeakerRowsOf(rows)
    IN \A k \in 1..Len(sr) :
         LET first == speakerAnalytics[FirstIndexWithDisplay(sr[k].person)]
         IN /\ sr[k].attended =
                 (\/ Measured(first.word_count) >= thresholds.WORDS_MIN
                  \/ Measured(first.duration_sec) >= thresholds.DURATION_MIN_SEC
                  \/ Measured(first.questions) >= thresholds.QUESTIONS_MIN)
            /\ sr[k].reason = C13_Expected(first)

(* C15: every entry of the analytics list has a row whose person is the    *)
(* entry's display label.                                                  *)
C15_EverySpeakerHasRow ==
  Resolved =>
    \A i \in 1..Len(speakerAnalytics) : HasRow(rows, Display(speakerAnalytics[i]))

(* C16: a participant is skipped only if its trimmed, lower-cased form is  *)
(* an indexed email key, and then the output holds an analytics-derived    *)
(* row for the person of the record under that key; every other            *)
(* participant yields one row (attended false, confidence 0.5, person the  *)
(* raw identifier), after all analytics-derived rows, in list order.       *)
EmailIndexed(id) ==
  \E k \in 1..Len(analyticsByKey) : analyticsByKey[k].key = <<"e:", norm(id)>>

NotEmailIndexed(id) == ~EmailIndexed(id)

PositiveThresholds ==
  /\ thresholds.WORDS_MIN > 0
  /\ thresholds.DURATION_MIN_SEC > 0
  /\ thresholds.QUESTIONS_MIN > 0

C18_InactiveBelowHalf ==
  (Resolved /\ PositiveThresholds) =>
    /\ Len(rows) = 1
    /\ LET s == speakerAnalytics[1]
       IN /\ rows[1].attended = FALSE =>
               /\ JsLt(rows[1].confidence, Rat(5, 10))
               /\ JsLt(rows[1].confidence, ParticipantRow(Alice).confidence)
          /\ rows[1].confidence = Num(1) <=>
               /\ Measured(s.word_count) >= 2 * thresholds.WORDS_MIN
               /\ Measured(s.duration_sec) >= 2 * thresholds.DURATION_MIN_SEC
               /\ Measured(s.questions) >= 2 * thresholds.QUESTIONS_MIN

C18_InactiveAboveFloor ==
  /\ Resolved
  /\ PositiveThresholds
  /\ Len(rows) = 1
  /\ rows[1].attended = FALSE
  /\ JsLt(Rat(1, 10), rows[1].confidence)
  /\ JsLt(rows[1].confidence, Rat(5, 10))

(* ------------------------------ handler claims ------------------------- *)

CarriesId(body) ==
  \/ body.transcript_id # ""
  \/ body.transcriptId # ""
  \/ /\ body.data # <<>>
     /\ body.data[1].transcript_id # "" \/ body.data[1].transcriptId # ""

Parsed(v) == v.body # <<>> /\ ~v.body[1].bad

GotTranscript(v) ==
  v.ff # <<>> /\ ~v.ff[1].threw /\ v.ff[1].transcript # <<>>

GotNoTranscript(v) ==
  v.ff # <<>> /\ ~v.ff[1].threw /\ v.ff[1].transcript = <<>>

HasCalled(v, name) == \E k \in 1..Len(v.calls) : v.calls[k] = name

Status(v) == IF v.response = <<>> THEN 0 ELSE v.response[1].status

(* C11: a parsed webhook payload with no transcript identifier, or a       *)
(* provider result with no transcript, is answered with status 200 without *)
(* invoking the resolver or the sheet append; without an identifier there  *)
(* is no provider fetch either.                                            *)
C11_BenignNoOp ==
  \A i \in Invocations :
    LET v == inv[i]
    IN /\ (Parsed(v) /\ ~CarriesId(v.body[1])) =>
            /\ Status(v) = 200
            /\ v.calls = <<"request.json">>
            /\ v.appended = <<>>
       /\ GotNoTranscript(v) =>
            /\ Status(v) = 200
            /\ v.calls = <<"request.json", "fetchFireflies">>
            /\ v.appended = <<>>

C11_BothNoOps ==
  /\ Parsed(inv[1])
  /\ inv[1].body[1].type # "ping"
  /\ ~CarriesId(inv[1].body[1])
  /\ inv[1].response = Response(200, "No transcript_id in webhook")
  /\ GotNoTranscript(inv[2])
  /\ inv[2].response = Response(200, "No transcript yet")
  /\ sheet = <<>>

(* C12: interleaved invocations share no mutable state: each appends, in   *)
(* one call, exactly the rows its own webhook and its own provider result  *)
(* determine, and its bindings hold only values computed from its own      *)
(* inputs.                                                                 *)
OwnRows(v) ==
  LET tr == v.ff[1].transcript[1]
      ps == IF tr.participants = <<>> THEN <<>> ELSE tr.participants[1]
      sa == IF tr.analytics = <<>> THEN <<>> ELSE tr.analytics[1]
  IN determineAttendance(sa, ps, thresholds)

OwnValues(v) ==
  formatValues(OwnRows(v), extractTranscriptId(v.body[1]),
               v.ff[1].transcript[1].title)

OwnFrame(v) ==
  [payload |-> IF Parsed(v) THEN v.body ELSE <<>>,
   transcriptId |->
     IF Parsed(v) /\ v.body[1].type # "ping"
     THEN extractTranscriptId(v.body[1]) ELSE "",
   byPerson |-> IF GotTranscript(v) THEN OwnRows(v) ELSE <<>>,
   values |-> IF GotTranscript(v) THEN OwnValues(v) ELSE <<>>]

Appended == {i \in Invocations : inv[i].pc = "responded" /\ inv[i].appended # <<>>}

C12_InvocationsIndependent ==
  /\ \A i \in Invocations :
       /\ frame[i] = OwnFrame(inv[i])
       /\ inv[i].appended # <<>> =>
            /\ GotTranscript(inv[i])
            /\ inv[i].appended = <<OwnValues(inv[i])>>
            /\ Cardinality({k \in 1..Len(inv[i].calls) :
                              inv[i].calls[k] = "appendToSheet"}) = 1
  /\ Len(sheet) = Cardinality(Appended)
  /\ \A i \in Appended : \E k \in 1..Len(sheet) : sheet[k] = inv[i].appended[1]

C12_BothAwaitingAppend ==
  /\ inv[1].pc = "append"
  /\ inv[2].pc = "append"
  /\ inv[1].appended[1][1][1] = "m1"
  /\ inv[2].appended[1][1][1] = "m2"
  /\ inv[1].appended # inv[2].appended

(* C17: the handler's steps are strictly ordered. The provider fetch       *)
(* happens at most once and only for a POST whose secret matched and whose *)
(* body parsed, was no ping and carried an identifier; the sheet append    *)
(* happens at most once and only after the fetch returned a transcript and *)
(* the resolver returned a row; a POST with a wrong or missing secret gets *)
(* 401 and nothing else.                                                   *)
CallOrder ==
  <<"request.json", "fetchFireflies", "determineAttendance", "appendToSheet">>

IsPrefix(s, of) == Len(s) <= Len(of) /\ \A k \in 1..Len(s) : s[k] = of[k]

SecretOk(request) ==
  /\ request.secret # <<>>
  /\ env.WEBHOOK_SECRET # <<>>
  /\ request.secret[1] = env.WEBHOOK_SECRET[1]

C17_StepsOrdered ==
  \A i \in Invocations :
    LET v == inv[i]
    IN /\ IsPrefix(v.calls, CallOrder)
       /\ HasCalled(v, "fetchFireflies") =>
            /\ v.request[1].method = "POST"
            /\ SecretOk(v.request[1])
            /\ Parsed(v)
            /\ v.body[1].type # "ping"
            /\ CarriesId(v.body[1])
       /\ HasCalled(v, "appendToSheet") =>
            /\ GotTranscript(v)
            /\ Len(frame[i].byPerson) >= 1
            /\ Len(v.appended[1]) >= 1
       /\ (v.request # <<>> /\ v.request[1].method = "POST"
             /\ ~SecretOk(v.request[1])) =>
            /\ v.response = Response(401, "Unauthorized")
            /\ v.calls = <<>>
            /\ v.appended = <<>>

C17_FullRun ==
  /\ inv[1].calls = CallOrder
  /\ inv[1].response = Response(200, "OK")
  /\ Len(sheet) = 1

====
